---- MODULE Spec2Model ----
(***************************************************************************)
(* Expiry scan and mail dispatch of the Parkeeruitzonderingenregister      *)
(* (src/app.py): App.check_verlopen, stuur_mail, _log_mail, and the        *)
(* process life cycle around them (start-up scan, idle UI, close, crash).  *)
(***************************************************************************)
EXTENDS Integers, Sequences, FiniteSets, TLC

(* ------------------------------------------------------------------ *)
(* Bounds of the model                                                 *)
(* ------------------------------------------------------------------ *)
\* rows ever inserted, over all tables (AUTOINCREMENT never reuses an id)
MaxRows == 1
\* days the wall clock may advance
MaxTicks == 1
\* rows of the table a single _check call is examined on (SpecSel)
MaxSelRows == 2
\* lines of mail_debug.log that are kept while the file is watched
MaxLog == 4

(* ------------------------------------------------------------------ *)
(* Program constants                                                   *)
(* ------------------------------------------------------------------ *)
MELDING_DAGEN == 14
CONTRACT_WARN_DAGEN == 90

\* the three tables check_verlopen scans, in the order it scans them
ScanOrder == << "uitzonderingen", "gehandicapten", "contracten" >>
Tables == { ScanOrder[i] : i \in 1..Len(ScanOrder) }

\* mutant of DaysBefore: every table is scanned with the window of the first
DaysBefore_Same(t) == MELDING_DAGEN

\* days_before argument of each _check call
DaysBefore(t) == IF t = "contracten" THEN CONTRACT_WARN_DAGEN ELSE MELDING_DAGEN

(* ------------------------------------------------------------------ *)
(* datetime.date: proleptic Gregorian calendar                         *)
(* ------------------------------------------------------------------ *)
Years == 2024..2026

IsLeap(y) == (y % 4 = 0) /\ ((y % 100 # 0) \/ (y % 400 = 0))

DaysInMonth(y, m) ==
    IF m = 2 THEN (IF IsLeap(y) THEN 29 ELSE 28)
    ELSE IF m \in {4, 6, 9, 11} THEN 30 ELSE 31

RECURSIVE DaysBeforeMonth(_, _)
DaysBeforeMonth(y, m) ==
    IF m <= 1 THEN 0 ELSE DaysBeforeMonth(y, m - 1) + DaysInMonth(y, m - 1)

DaysBeforeYear(y) ==
    365 * (y - 1) + ((y - 1) \div 4) - ((y - 1) \div 100) + ((y - 1) \div 400)

\* a date object is <<year, month, day>>
ValidDate(y, m, d) == /\ y \in Years
                      /\ m \in 1..12
                      /\ d \in 1..DaysInMonth(y, m)

\* date.toordinal()
ToOrdinal(dt) == DaysBeforeYear(dt[1]) + DaysBeforeMonth(dt[1], dt[2]) + dt[3]

\* date.fromordinal(n)
FromOrdinal(n) ==
    LET y   == CHOOSE yy \in Years :
                   DaysBeforeYear(yy) < n /\ n <= DaysBeforeYear(yy + 1)
        rem == n - DaysBeforeYear(y)
        m   == CHOOSE mm \in 1..12 :
                   DaysBeforeMonth(y, mm) < rem /\ rem <= DaysBeforeMonth(y, mm + 1)
    IN  << y, m, rem - DaysBeforeMonth(y, m) >>

\* date + timedelta(days=n)
DatePlusDays(dt, n) == FromOrdinal(ToOrdinal(dt) + n)

\* date.__le__: field-wise comparison of (year, month, day)
DateLE(a, b) ==
    \/ a[1] < b[1]
    \/ a[1] = b[1] /\ a[2] < b[2]
    \/ a[1] = b[1] /\ a[2] = b[2] /\ a[3] <= b[3]

(* ------------------------------------------------------------------ *)
(* Stored TEXT values of a date column                                 *)
(* ------------------------------------------------------------------ *)
\* kind "null"  : SQL NULL
\* kind "empty" : the empty string a form stores for a blank field
\* kind "junk"  : any other text that is not of the form Y-M-D
\* kind "ymd"   : the text "yyyy-mm-dd" (its fields need not form a real date)
\* kind "ymd1"  : the same written without leading zeros, as in "2025-1-5"
NullText  == [kind |-> "null",  y |-> 0, m |-> 0, d |-> 0]
EmptyText == [kind |-> "empty", y |-> 0, m |-> 0, d |-> 0]
JunkText  == [kind |-> "junk",  y |-> 0, m |-> 0, d |-> 0]
YMD(y, m, d) == [kind |-> "ymd", y |-> y, m |-> m, d |-> d]
Unpadded(y, m, d) == [kind |-> "ymd1", y |-> y, m |-> m, d |-> d]

\* datetime.strptime(text, "%Y-%m-%d").date(); ok = FALSE when it raises.
\* %m and %d take one digit as well as two, so "2025-1-5" is read as a date
ParseDate(text) ==
    IF text.kind \in {"ymd", "ymd1"} /\ ValidDate(text.y, text.m, text.d)
    THEN [ok |-> TRUE,  date |-> << text.y, text.m, text.d >>]
    ELSE [ok |-> FALSE, date |-> << 0, 0, 0 >>]

(* ------------------------------------------------------------------ *)
(* Mail dispatch: _log_mail and stuur_mail                             *)
(* ------------------------------------------------------------------ *)
\* one observable step of a stuur_mail call
\*   k = "try"  : a send is attempted on channel ch
\*   k = "sent" : the send on channel ch returned normally
\*   k = "fail" : the attempt on channel ch raised
\*   k = "log"  : a line was appended to mail_debug.log (what = its kind)
\*   k = "lost" : _log_mail was called but the write failed; nothing was appended
\*   k = "dlg"  : a messagebox was shown (what = its kind)
Ev(k, ch, what) == [k |-> k, ch |-> ch, what |-> what]

\* _log_mail(msg): appends one line; an error while writing (logw = FALSE) is
\* swallowed and leaves no line
log_mail(ch, what, logw) ==
    IF logw THEN << Ev("log", ch, what) >> ELSE << Ev("lost", ch, what) >>

\* outcomes the environment can give to one stuur_mail call
\*   outlook : "ok"    Outlook accepts the message
\*             "early" Dispatch/GetNamespace/CreateItem raises
\*             "send"  mail.Send() raises
\*   acct    : TRUE when setting SendUsingAccount raises
\*   smtp    : TRUE when the SMTP submission completes
\*   logw    : TRUE when mail_debug.log can be appended to
MailInputs == [outlook : {"ok", "early", "send"},
               acct    : BOOLEAN,
               smtp    : BOOLEAN,
               logw    : BOOLEAN]

\* mutant of OutlookBlock: the except clause does not log the failure
OutlookBlock_NoFailLog(show_errors, in) ==
    LET acct == IF in.outlook # "early" /\ in.acct
                THEN log_mail("outlook", "account", in.logw) ELSE << >>
    IN  IF in.outlook = "ok"
        THEN [done |-> TRUE, raised |-> FALSE,
              ev |-> << Ev("try", "outlook", "") >> \o acct
                     \o << Ev("sent", "outlook", "") >>
                     \o log_mail("outlook", "verzonden", in.logw)]
        ELSE [done |-> FALSE, raised |-> FALSE,
              ev |-> << Ev("try", "outlook", "") >> \o acct
                     \o << Ev("fail", "outlook", "") >>
                     \o (IF show_errors
                         THEN << Ev("dlg", "outlook", "showwarning") >>
                         ELSE << >>)]

\* mutant of OutlookBlock: the sent line is logged before mail.Send() is called
OutlookBlock_LogFirst(show_errors, in) ==
    LET acct == IF in.outlook # "early" /\ in.acct
                THEN log_mail("outlook", "account", in.logw) ELSE << >>
        pre  == IF in.outlook # "early"
                THEN log_mail("outlook", "verzonden", in.logw) ELSE << >>
    IN  IF in.outlook = "ok"
        THEN [done |-> TRUE, raised |-> FALSE,
              ev |-> << Ev("try", "outlook", "") >> \o acct \o pre
                     \o << Ev("sent", "outlook", "") >>]
        ELSE [done |-> FALSE, raised |-> FALSE,
              ev |-> << Ev("try", "outlook", "") >> \o acct \o pre
                     \o << Ev("fail", "outlook", "") >>
                     \o log_mail("outlook", "fout", in.logw)
                     \o (IF show_errors
                         THEN << Ev("dlg", "outlook", "showwarning") >>
                         ELSE << >>)]

\* the "1) Outlook COM" block of stuur_mail
OutlookBlock(show_errors, in) ==
    LET acct == IF in.outlook # "early" /\ in.acct
                THEN log_mail("outlook", "account", in.logw) ELSE << >>
    IN  IF in.outlook = "ok"
        THEN [done |-> TRUE, raised |-> FALSE,
              ev |-> << Ev("try", "outlook", "") >> \o acct
                     \o << Ev("sent", "outlook", "") >>
                     \o log_mail("outlook", "verzonden", in.logw)]
        ELSE [done |-> FALSE, raised |-> FALSE,
              ev |-> << Ev("try", "outlook", "") >> \o acct
                     \o << Ev("fail", "outlook", "") >>
                     \o log_mail("outlook", "fout", in.logw)
                     \o (IF show_errors
                         THEN << Ev("dlg", "outlook", "showwarning") >>
                         ELSE << >>)]

\* mutant of SmtpBlock: no except clause, a failing submission propagates
SmtpBlock_Raises(show_errors, in) ==
    IF in.smtp
    THEN [done |-> TRUE, raised |-> FALSE,
          ev |-> << Ev("try", "smtp", ""), Ev("sent", "smtp", "") >>
                 \o log_mail("smtp", "verzonden", in.logw)]
    ELSE [done |-> FALSE, raised |-> TRUE,
          ev |-> << Ev("try", "smtp", ""), Ev("fail", "smtp", "") >>]

\* the try/except of the "2) SMTP fallback" block of stuur_mail
SmtpBlock(show_errors, in) ==
    IF in.smtp
    THEN [done |-> TRUE, raised |-> FALSE,
          ev |-> << Ev("try", "smtp", ""), Ev("sent", "smtp", "") >>
                 \o log_mail("smtp", "verzonden", in.logw)]
    ELSE [done |-> FALSE, raised |-> FALSE,
          ev |-> << Ev("try", "smtp", ""), Ev("fail", "smtp", "") >>
                 \o log_mail("smtp", "fout", in.logw)
                 \o (IF show_errors
                     THEN << Ev("dlg", "smtp", "showerror") >>
                     ELSE << >>)]

\* mutant of StuurMail: the fallback is tried as soon as a host is filled in,
\* whatever SMTP_ENABLED says
StuurMail_HostOnly(c, show_errors, in) ==
    LET o == IF c.OUTLOOK_OK
             THEN OutlookBlock(show_errors, in)
             ELSE [done |-> FALSE, raised |-> FALSE, ev |-> << >>]
    IN  IF o.done THEN [ok |-> TRUE, raised |-> FALSE, ev |-> o.ev]
        ELSE
          LET s == IF c.SMTP_HOST # ""
                   THEN SmtpBlock(show_errors, in)
                   ELSE [done |-> FALSE, raised |-> FALSE,
                         ev |-> log_mail("smtp", "niet_geconfigureerd", in.logw)]
          IN  [ok |-> s.done, raised |-> FALSE, ev |-> o.ev \o s.ev]

\* mutant of StuurMail: no return after the Outlook send, the fallback runs too
StuurMail_NoReturn(c, show_errors, in) ==
    LET o == IF c.OUTLOOK_OK
             THEN OutlookBlock(show_errors, in)
             ELSE [done |-> FALSE, raised |-> FALSE, ev |-> << >>]
        s == IF c.SMTP_ENABLED /\ c.SMTP_HOST # ""
             THEN SmtpBlock(show_errors, in)
             ELSE [done |-> FALSE, raised |-> FALSE,
                   ev |-> log_mail("smtp", "niet_geconfigureerd", in.logw)]
    IN  [ok |-> o.done \/ s.done, raised |-> FALSE, ev |-> o.ev \o s.ev]

\* stuur_mail(onderwerp, tekst, to_addr, show_errors) -> bool
\*   ok     : the value returned
\*   raised : an exception left the function
\*   ev     : what the call did, in order
StuurMail(c, show_errors, in) ==
    LET o == IF c.OUTLOOK_OK
             THEN OutlookBlock(show_errors, in)
             ELSE [done |-> FALSE, raised |-> FALSE, ev |-> << >>]
    IN  IF o.raised THEN [ok |-> FALSE, raised |-> TRUE, ev |-> o.ev]
        ELSE IF o.done THEN [ok |-> TRUE, raised |-> FALSE, ev |-> o.ev]
        ELSE
          LET s == IF c.SMTP_ENABLED /\ c.SMTP_HOST # ""
                   THEN SmtpBlock(show_errors, in)
                   ELSE [done |-> FALSE, raised |-> FALSE,
                         ev |-> log_mail("smtp", "niet_geconfigureerd", in.logw)]
          IN  IF s.raised THEN [ok |-> FALSE, raised |-> TRUE, ev |-> o.ev \o s.ev]
              ELSE IF s.done THEN [ok |-> TRUE, raised |-> FALSE, ev |-> o.ev \o s.ev]
              ELSE [ok |-> FALSE, raised |-> FALSE, ev |-> o.ev \o s.ev]

(* ------------------------------------------------------------------ *)
(* The record store (sqlite database file)                             *)
(* ------------------------------------------------------------------ *)
\* a table: seq is its AUTOINCREMENT counter, rows maps each present id to
\* [eind : the stored end-date text, melding : melding_verzonden]
EmptyTable == [seq |-> 0, rows |-> << >>]

\* create_tables on a fresh database file
EmptyStore == [t \in Tables |-> EmptyTable]

\* the records of a store, as <<table, id>>
Recs(store) == { r \in Tables \X (1..MaxRows) : r[2] \in DOMAIN store[r[1]].rows }

Flag(store, r) == store[r[1]].rows[r[2]].melding
EndOf(store, r) == store[r[1]].rows[r[2]].eind

Inserted(store) ==
    store["uitzonderingen"].seq + store["gehandicapten"].seq
        + store["contracten"].seq

\* INSERT INTO t (...) VALUES (...): melding_verzonden takes its DEFAULT 0
InsertRow(store, t, eind) ==
    LET id == store[t].seq + 1
    IN  [store EXCEPT ![t] =
            [seq  |-> id,
             rows |-> [i \in DOMAIN store[t].rows \cup {id} |->
                          IF i = id THEN [eind |-> eind, melding |-> 0]
                                    ELSE store[t].rows[i]]]]

\* mutant of UpdateRow: a new end date makes the record due for a mail again
UpdateRow_Renew(store, t, id, eind) ==
    [store EXCEPT ![t].rows[id] =
        [eind |-> eind,
         melding |-> IF eind = @.eind THEN @.melding ELSE 0]]

\* mutant of UpdateRow: the UPDATE also puts melding_verzonden back to 0
UpdateRow_Reset(store, t, id, eind) ==
    [store EXCEPT ![t].rows[id] = [eind |-> eind, melding |-> 0]]

\* UPDATE t SET <form fields> WHERE id=:id  (melding_verzonden is not a form field)
UpdateRow(store, t, id, eind) ==
    [store EXCEPT ![t].rows[id].eind = eind]

\* DELETE FROM t WHERE id=?
DeleteRow(store, t, id) ==
    [store EXCEPT ![t].rows =
        [i \in DOMAIN store[t].rows \ {id} |-> store[t].rows[i]]]

\* mutant of MarkSent: the row is removed once its mail has gone out
MarkSent_Purge(store, t, id) ==
    IF id \in DOMAIN store[t].rows
    THEN DeleteRow(store, t, id)
    ELSE store

\* UPDATE t SET melding_verzonden=1 WHERE id=?
MarkSent(store, t, id) ==
    IF id \in DOMAIN store[t].rows
    THEN [store EXCEPT ![t].rows[id].melding = 1]
    ELSE store

RECURSIVE AscSeq(_)
AscSeq(S) ==
    IF S = {} THEN << >>
    ELSE LET lo == CHOOSE x \in S : \A y \in S : x <= y
         IN  << lo >> \o AscSeq(S \ {lo})

\* mutant of SelectRows: the WHERE clause does not look at melding_verzonden
SelectRows_AnyFlag(store, t) ==
    LET ids == { i \in DOMAIN store[t].rows : store[t].rows[i].eind.kind # "null" }
        asc == AscSeq(ids)
    IN  [k \in 1..Len(asc) |-> [id |-> asc[k], eind |-> store[t].rows[asc[k]].eind]]

\* SELECT id, naam, eind FROM t WHERE melding_verzonden=0 AND eind IS NOT NULL
\* followed by fetchall(): the rows in rowid order
SelectRows(store, t) ==
    LET ids == { i \in DOMAIN store[t].rows :
                    /\ store[t].rows[i].melding = 0
                    /\ store[t].rows[i].eind.kind # "null" }
        asc == AscSeq(ids)
    IN  [k \in 1..Len(asc) |-> [id |-> asc[k], eind |-> store[t].rows[asc[k]].eind]]

\* mutant of InWindow: the end date must lie strictly after vandaag
InWindow_AfterToday(vdg, eind, days_before) ==
    LET grens == DatePlusDays(vdg, days_before)
    IN  ~DateLE(eind, vdg) /\ DateLE(eind, grens)

\* vandaag <= eind <= grens, with grens = vandaag + timedelta(days=days_before)
InWindow(vdg, eind, days_before) ==
    LET grens == DatePlusDays(vdg, days_before)
    IN  DateLE(vdg, eind) /\ DateLE(eind, grens)

\* the rows of one _check call for which stuur_mail is called
Due(store, t, vdg, days_before) ==
    { i \in DOMAIN store[t].rows :
        /\ \E k \in DOMAIN SelectRows(store, t) : SelectRows(store, t)[k].id = i
        /\ ParseDate(store[t].rows[i].eind).ok
        /\ InWindow(vdg, ParseDate(store[t].rows[i].eind).date, days_before) }

(* ------------------------------------------------------------------ *)
(* State                                                               *)
(* ------------------------------------------------------------------ *)
VARIABLES
    cfg,        \* module constants OUTLOOK_OK, SMTP_ENABLED, SMTP_HOST
    probe,      \* a single _check call examined on its own (SpecSel only)
    now,        \* days the wall clock has advanced since Day0
    disk,       \* the committed database
    txn,        \* the database as the open connection sees it
    pc,         \* where the process is
    vandaag,    \* check_verlopen: datetime.today().date()
    tbl,        \* check_verlopen: index in ScanOrder of the running _check
    rows,       \* _check: rows of cur.fetchall() not yet handled
    call,       \* the stuur_mail call in progress or last made
    last,       \* what the last stuur_mail call returned and did
    delivered,  \* history: records for which a scan's stuur_mail returned True
    sameEnd,    \* history: the delivered records whose end date has not been
                \*          edited since
    attempted,  \* history: records for which a scan called stuur_mail
    crashed,    \* history: records whose scan died between their stuur_mail
                \*          call and the commit
    scanSent,   \* history: records the running scan has called stuur_mail for
    maillog,    \* mail_debug.log: the lines appended to it while it is watched
    inst        \* instances of the application scanning the same database
                \*          at the same time (SpecTwo only)

vars == << cfg, probe, now, disk, txn, pc, vandaag, tbl, rows, call, last,
           delivered, sameEnd, attempted, crashed, scanSent, maillog, inst >>

Day0 == << 2025, 1, 1 >>

\* what a user can type in the end-date field of a form: nothing; Day0 (due
\* on Day0, past the day after); Day0 + 15 (inside the 90 days of a contract,
\* inside the 14 days of the other tables only from the day after Day0)
FormTexts == { EmptyText, YMD(2025, 1, 1), YMD(2025, 1, 16) }

\* the settings of the module: as shipped (SMTP_ENABLED = False, no host) and
\* with the SMTP fallback set up; pywin32 present or not
Configs ==
    { [OUTLOOK_OK |-> o, SMTP_ENABLED |-> FALSE, SMTP_HOST |-> ""] : o \in BOOLEAN }
    \cup
    { [OUTLOOK_OK |-> o, SMTP_ENABLED |-> TRUE, SMTP_HOST |-> "smtp.host"] : o \in BOOLEAN }

NoProbe == [t |-> "", days |-> 0, sel |-> {}, done |-> FALSE]
NoCall == [caller |-> "none", t |-> "", id |-> 0, show_errors |-> FALSE]
NoResult == [ok |-> FALSE, raised |-> FALSE, ev |-> << >>]

\* mail_debug.log is written and never read by the program: its lines are kept
\* only in the specifications that watch the file
NotWatched == [on |-> FALSE, lines |-> << >>]
Watched == [on |-> TRUE, lines |-> << >>]

\* the lines one stuur_mail call appended, in order
Written(ev) == SelectSeq(ev, LAMBDA e : e.k = "log")

\* mutant of AppendLog: the file is opened with mode "w"
AppendLog_Overwrite(lg, ev) ==
    IF lg.on /\ Written(ev) # << >> THEN [lg EXCEPT !.lines = Written(ev)] ELSE lg

\* open(MAIL_LOG, "a") ... f.write(...): lines are only ever added at the end
AppendLog(lg, ev) ==
    IF lg.on THEN [lg EXCEPT !.lines = @ \o Written(ev)] ELSE lg

\* no instances are followed side by side
NoInst == << >>

Init ==
    /\ cfg \in Configs
    /\ probe = NoProbe
    /\ now = 0
    /\ disk = EmptyStore
    /\ txn = EmptyStore
    /\ pc = "down"
    /\ vandaag = Day0
    /\ tbl = 0
    /\ rows = << >>
    /\ call = NoCall
    /\ last = NoResult
    /\ delivered = {}
    /\ sameEnd = {}
    /\ attempted = {}
    /\ crashed = {}
    /\ scanSent = {}
    /\ maillog = NotWatched
    /\ inst = NoInst

env == << cfg, probe, inst, maillog >>
hist == << delivered, sameEnd, attempted, crashed, scanSent >>
scan == << vandaag, tbl, rows >>
mail == << call, last >>

(* ------------------------------------------------------------------ *)
(* Process life cycle                                                  *)
(* ------------------------------------------------------------------ *)
\* App.__init__ up to the first SELECT of check_verlopen
Start ==
    /\ pc = "down"
    /\ pc' = "scan"
    /\ txn' = disk
    /\ vandaag' = DatePlusDays(Day0, now)
    /\ tbl' = 1
    /\ rows' = SelectRows(disk, ScanOrder[1])
    /\ scanSent' = {}
    /\ UNCHANGED << env, now, disk, call, last, delivered, sameEnd, attempted, crashed >>

\* mutant of ScanRow: a date that does not parse ends the loop (break, not
\* continue)
ScanRow_Stops ==
    /\ pc = "scan"
    /\ rows # << >>
    /\ LET r == Head(rows)
           t == ScanOrder[tbl]
           p == ParseDate(r.eind)
       IN  IF p.ok /\ InWindow(vandaag, p.date, DaysBefore(t))
           THEN /\ pc' = "mail"
                /\ call' = [caller |-> "scan", t |-> t, id |-> r.id,
                            show_errors |-> TRUE]
                /\ UNCHANGED rows
           ELSE /\ rows' = IF p.ok THEN Tail(rows) ELSE << >>
                /\ UNCHANGED << pc, call >>
    /\ UNCHANGED << env, now, disk, txn, vandaag, tbl, last, hist >>

\* _check: one iteration of "for r in cur.fetchall()" up to the stuur_mail call
ScanRow ==
    /\ pc = "scan"
    /\ rows # << >>
    /\ LET r == Head(rows)
           t == ScanOrder[tbl]
           p == ParseDate(r.eind)
       IN  IF p.ok /\ InWindow(vandaag, p.date, DaysBefore(t))
           THEN /\ pc' = "mail"
                /\ call' = [caller |-> "scan", t |-> t, id |-> r.id,
                            show_errors |-> TRUE]
                /\ UNCHANGED rows
           ELSE /\ rows' = Tail(rows)
                /\ UNCHANGED << pc, call >>
    /\ UNCHANGED << env, now, disk, txn, vandaag, tbl, last, hist >>

\* mutant of ScanUpdate: the UPDATE is committed at once
ScanUpdate_Commits ==
    /\ pc = "scan_update"
    /\ txn' = MarkSent(txn, call.t, call.id)
    /\ disk' = MarkSent(txn, call.t, call.id)
    /\ rows' = Tail(rows)
    /\ pc' = "scan"
    /\ call' = NoCall
    /\ last' = NoResult
    /\ UNCHANGED << env, now, vandaag, tbl, hist >>

\* _check: the UPDATE after stuur_mail has returned
ScanUpdate ==
    /\ pc = "scan_update"
    /\ txn' = MarkSent(txn, call.t, call.id)
    /\ rows' = Tail(rows)
    /\ pc' = "scan"
    /\ call' = NoCall
    /\ last' = NoResult
    /\ UNCHANGED << env, now, disk, vandaag, tbl, hist >>

\* check_verlopen: the next _check call, or the commit after the last one
ScanNext ==
    /\ pc = "scan"
    /\ rows = << >>
    /\ IF tbl < Len(ScanOrder)
       THEN /\ tbl' = tbl + 1
            /\ rows' = SelectRows(txn, ScanOrder[tbl + 1])
            /\ UNCHANGED << pc, disk, scanSent >>
            /\ UNCHANGED vandaag
       ELSE /\ disk' = txn
            /\ pc' = "idle"
            /\ scanSent' = {}
            /\ vandaag' = Day0
            /\ tbl' = 0
            /\ UNCHANGED rows
    /\ UNCHANGED << env, now, txn, mail, delivered, sameEnd, attempted, crashed >>

\* mutant of stuur_mail: a successful send also flags the record it is about
stuur_mail_marks ==
    /\ pc = "mail"
    /\ \E in \in MailInputs :
         LET res == StuurMail(cfg, call.show_errors, in)
             rec == << call.t, call.id >>
         IN  /\ last' = res
             /\ pc' = IF call.caller = "scan" THEN "scan_update" ELSE "mail_done"
             /\ IF call.caller = "scan"
                THEN /\ attempted' = attempted \cup {rec}
                     /\ scanSent' = scanSent \cup {rec}
                     /\ delivered' = IF res.ok THEN delivered \cup {rec}
                                               ELSE delivered
                     /\ sameEnd' = IF res.ok THEN sameEnd \cup {rec}
                                             ELSE sameEnd
                     /\ UNCHANGED crashed
                ELSE UNCHANGED hist
             /\ txn' = IF res.ok /\ call.caller # "test"
                       THEN MarkSent(txn, call.t, call.id) ELSE txn
             /\ maillog.on => Len(maillog.lines) + Len(Written(res.ev)) <= MaxLog
             /\ maillog' = AppendLog(maillog, res.ev)
    /\ UNCHANGED << cfg, probe, inst, now, disk, scan, call >>

\* stuur_mail, for whichever caller is waiting for it
stuur_mail ==
    /\ pc = "mail"
    /\ \E in \in MailInputs :
         LET res == StuurMail(cfg, call.show_errors, in)
             rec == << call.t, call.id >>
         IN  /\ last' = res
             /\ pc' = IF call.caller = "scan"
                      THEN (IF res.raised THEN "down" ELSE "scan_update")
                      ELSE "mail_done"
             /\ IF call.caller = "scan"
                THEN /\ attempted' = attempted \cup {rec}
                     /\ scanSent' = scanSent \cup {rec}
                     /\ delivered' = IF res.ok THEN delivered \cup {rec}
                                               ELSE delivered
                     /\ sameEnd' = IF res.ok THEN sameEnd \cup {rec}
                                             ELSE sameEnd
                     /\ UNCHANGED crashed
                ELSE UNCHANGED hist
             /\ txn' = IF call.caller = "scan" /\ res.raised THEN disk ELSE txn
             /\ IF call.caller = "scan" /\ res.raised
                THEN vandaag' = Day0 /\ tbl' = 0 /\ rows' = << >>
                ELSE UNCHANGED scan
             /\ maillog.on => Len(maillog.lines) + Len(Written(res.ev)) <= MaxLog
             /\ maillog' = AppendLog(maillog, res.ev)
    /\ UNCHANGED << cfg, probe, inst, now, disk, call >>

\* every record of the store flagged
AllSent(store) ==
    [t \in Tables |->
        [store[t] EXCEPT !.rows =
            [i \in DOMAIN store[t].rows |-> [store[t].rows[i] EXCEPT !.melding = 1]]]]

\* mutant of TestMail: the test mail counts as the notification of every record
TestMail_Flags ==
    /\ pc = "idle"
    /\ pc' = "mail"
    /\ call' = [caller |-> "test", t |-> "", id |-> 0, show_errors |-> TRUE]
    /\ txn' = AllSent(txn)
    /\ disk' = AllSent(txn)
    /\ UNCHANGED << env, now, scan, last, hist >>

\* App._test_mail up to the stuur_mail call
TestMail ==
    /\ pc = "idle"
    /\ pc' = "mail"
    /\ call' = [caller |-> "test", t |-> "", id |-> 0, show_errors |-> TRUE]
    /\ UNCHANGED << env, now, disk, txn, scan, last, hist >>

\* _test_mail and the forms after stuur_mail has returned: a result dialog
\* (_test_mail) or the refresh of the table and the dashboard (forms)
MailDone ==
    /\ pc = "mail_done"
    /\ pc' = "idle"
    /\ call' = NoCall
    /\ last' = NoResult
    /\ UNCHANGED << env, now, disk, txn, scan, hist >>

\* the window is closed: every handler has committed, nothing is pending
Close ==
    /\ pc = "idle"
    /\ pc' = "down"
    /\ UNCHANGED << env, now, disk, txn, scan, mail, hist >>

\* the process dies (killed, power loss): the open transaction is rolled back
Crash ==
    /\ pc \in {"scan", "mail", "scan_update", "mail_done"}
    /\ pc' = "down"
    /\ txn' = disk
    /\ call' = NoCall
    /\ last' = NoResult
    /\ vandaag' = Day0
    /\ tbl' = 0
    /\ rows' = << >>
    /\ scanSent' = {}
    /\ crashed' = crashed \cup scanSent
    /\ UNCHANGED << env, now, disk, delivered, sameEnd, attempted >>

\* a day passes; the date is read only when a scan starts
Tick ==
    /\ pc \in {"down", "idle"}
    /\ now < MaxTicks
    /\ now' = now + 1
    /\ UNCHANGED << env, disk, txn, pc, scan, mail, hist >>

(* ------------------------------------------------------------------ *)
(* Forms                                                               *)
(* ------------------------------------------------------------------ *)
\* formulier_u / formulier_g / formulier_c, opslaan without a record: INSERT,
\* commit, and (not for contracten) the notification mail
opslaan_insert ==
    /\ pc = "idle"
    /\ Inserted(txn) < MaxRows
    /\ \E t \in Tables, e \in FormTexts :
         /\ txn' = InsertRow(txn, t, e)
         /\ disk' = InsertRow(txn, t, e)
         /\ IF t = "contracten"
            THEN UNCHANGED << pc, call >>
            ELSE /\ pc' = "mail"
                 /\ call' = [caller |-> "form", t |-> t, id |-> txn[t].seq + 1,
                             show_errors |-> TRUE]
    /\ UNCHANGED << env, now, scan, last, hist >>

\* opslaan with a record: UPDATE, commit, and (not for contracten) a mail when
\* build_changes finds a difference; other = some other field was changed
opslaan_update ==
    /\ pc = "idle"
    /\ \E t \in Tables, e \in FormTexts, other \in BOOLEAN :
       \E id \in DOMAIN txn[t].rows :
         LET old == txn[t].rows[id].eind
             changed == other \/ (IF old.kind = "null" THEN EmptyText ELSE old) # e
         IN  /\ txn' = UpdateRow(txn, t, id, e)
             /\ disk' = UpdateRow(txn, t, id, e)
             /\ sameEnd' = IF old = e THEN sameEnd ELSE sameEnd \ {<< t, id >>}
             /\ IF t = "contracten" \/ ~changed
                THEN UNCHANGED << pc, call >>
                ELSE /\ pc' = "mail"
                     /\ call' = [caller |-> "form", t |-> t, id |-> id,
                                 show_errors |-> TRUE]
    /\ UNCHANGED << env, now, scan, last, delivered, attempted, crashed, scanSent >>

\* verwijder_u / verwijder_g / verwijder_c, confirmed: DELETE and commit
verwijder ==
    /\ pc = "idle"
    /\ \E t \in Tables : \E id \in DOMAIN txn[t].rows :
         /\ txn' = DeleteRow(txn, t, id)
         /\ disk' = DeleteRow(txn, t, id)
         \* the histories follow the records that exist
         /\ delivered' = delivered \ {<< t, id >>}
         /\ sameEnd' = sameEnd \ {<< t, id >>}
         /\ attempted' = attempted \ {<< t, id >>}
         /\ crashed' = crashed \ {<< t, id >>}
    /\ UNCHANGED << env, now, pc, scan, mail, scanSent >>

Next ==
    \/ Start
    \/ ScanRow
    \/ ScanUpdate
    \/ ScanNext
    \/ stuur_mail
    \/ TestMail
    \/ MailDone
    \/ Close
    \/ Crash
    \/ Tick
    \/ opslaan_insert
    \/ opslaan_update
    \/ verwijder

Spec == Init /\ [][Next]_vars

(* ------------------------------------------------------------------ *)
(* One _check call on its own, over drawn tables, dates and windows    *)
(* ------------------------------------------------------------------ *)
\* melding_verzonden of a row that predates the column: ALTER TABLE ... ADD
\* COLUMN melding_verzonden INTEGER gives it NULL
NullFlag == -1

\* dates taken as vandaag: plain, before a leap day, before a year's end
SelDays == { << 2025, 1, 1 >>, << 2024, 2, 15 >>, << 2025, 12, 20 >> }

\* end dates are drawn at these distances from vandaag
SelOffsets == { -1, 0, 14, 15, 90, 91 }

\* days_before values: none, and the two the program uses
WarnDays == { 0, MELDING_DAGEN, CONTRACT_WARN_DAGEN }

SelTexts(v) ==
    { NullText, EmptyText, JunkText, YMD(2025, 2, 30) }
    \cup { YMD(DatePlusDays(v, k)[1], DatePlusDays(v, k)[2], DatePlusDays(v, k)[3]) :
             k \in SelOffsets }

InitSel ==
    /\ cfg = [OUTLOOK_OK |-> FALSE, SMTP_ENABLED |-> FALSE, SMTP_HOST |-> ""]
    /\ probe = NoProbe
    /\ now = 0
    /\ pc = "down"
    /\ vandaag \in SelDays
    /\ \E t \in Tables, n \in 0..MaxSelRows :
         \E rs \in [1..n -> [eind : SelTexts(vandaag), melding : {0, 1, NullFlag}]] :
            disk = [EmptyStore EXCEPT ![t] = [seq |-> n, rows |-> rs]]
    /\ txn = disk
    /\ tbl = 0
    /\ rows = << >>
    /\ call = NoCall
    /\ last = NoResult
    /\ delivered = {}
    /\ sameEnd = {}
    /\ attempted = {}
    /\ crashed = {}
    /\ scanSent = {}
    /\ maillog = NotWatched
    /\ inst = NoInst

\* _check(table, name_field, date_field, days_before, what): the rows it calls
\* stuur_mail for
check_sel ==
    /\ ~probe.done
    /\ \E t \in Tables, days \in WarnDays :
         probe' = [t |-> t, days |-> days, done |-> TRUE,
                   sel |-> Due(txn, t, vandaag, days)]
    /\ UNCHANGED << cfg, inst, maillog, now, disk, txn, pc, scan, mail, hist >>

NextSel == check_sel

SpecSel == InitSel /\ [][NextSel]_vars

TypeOK ==
    /\ pc \in {"down", "scan", "mail", "scan_update", "mail_done", "idle"}
    /\ now \in 0..MaxTicks
    /\ sameEnd \subseteq delivered
    /\ delivered \subseteq attempted
    /\ crashed \subseteq attempted
    /\ probe = NoProbe
    \* when a _check call ends, the scan has called stuur_mail for exactly the
    \* rows Due names (the store on disk is the store the scan started from)
    /\ (pc = "scan" /\ rows = << >>) =>
           { r[2] : r \in { x \in scanSent : x[1] = ScanOrder[tbl] } }
               = Due(disk, ScanOrder[tbl], vandaag, DaysBefore(ScanOrder[tbl]))

(* ------------------------------------------------------------------ *)
(* Properties                                                          *)
(* ------------------------------------------------------------------ *)
\* the date a scan starting now would take as vandaag
TodayDate == DatePlusDays(Day0, now)

\* the call in `call` has returned and its result is in `last`
HasResult == pc \in {"scan_update", "mail_done"}

\* C1: during an expiry scan a record's melding_verzonden is set to 1 only
\* when stuur_mail returned True for that record; a record whose dispatch
\* failed keeps melding_verzonden = 0.
C1_FlagOnlyOnSuccess ==
    \A r \in Recs(txn) : Flag(txn, r) = 1 => r \in delivered

\* C2: a due record whose dispatch failed on every channel is retried: a scan
\* started while its end date is still inside the warning window selects it
\* and calls stuur_mail for it again.
C2_FailedIsRetried ==
    pc \in {"down", "idle"} =>
        \A r \in Recs(disk) :
            ( /\ r \in attempted \ delivered
              /\ ParseDate(EndOf(disk, r)).ok
              /\ ToOrdinal(TodayDate) <= ToOrdinal(ParseDate(EndOf(disk, r)).date)
              /\ ToOrdinal(ParseDate(EndOf(disk, r)).date)
                     <= ToOrdinal(TodayDate) + DaysBefore(r[1]) )
            => r[2] \in Due(disk, r[1], TodayDate, DaysBefore(r[1]))

\* C3: for every category, warning_days and reference_date the scan selects
\* exactly the records of the category with notified = false (stored 0), an
\* end date that is present, and reference_date <= window_end <=
\* reference_date + warning_days; window_end = reference_date is selected even
\* with warning_days = 0, window_end = reference_date - 1 day never.
C3_ScanSelectsExactlyDue ==
    probe.done =>
        LET R      == txn[probe.t].rows
            ref    == ToOrdinal(vandaag)
            IsDate(x) == x.kind = "ymd" /\ ValidDate(x.y, x.m, x.d)
            Ord(x) == ToOrdinal(<< x.y, x.m, x.d >>)
            Open   == { i \in DOMAIN R : R[i].melding = 0 /\ IsDate(R[i].eind) }
        IN  /\ probe.sel = { i \in Open : /\ ref <= Ord(R[i].eind)
                                          /\ Ord(R[i].eind) <= ref + probe.days }
            /\ \A i \in Open : Ord(R[i].eind) = ref => i \in probe.sel
            /\ \A i \in Open : Ord(R[i].eind) = ref - 1 => i \notin probe.sel

\* C3 witness: a call with days_before = 0 has selected a row that ends on
\* the reference date
C3_Witness ==
    /\ probe.done
    /\ probe.days = 0
    /\ \E i \in probe.sel :
         LET x == txn[probe.t].rows[i].eind
         IN  ToOrdinal(<< x.y, x.m, x.d >>) = ToOrdinal(vandaag)

\* the record the scan is calling stuur_mail for
ScanCalls(r) == pc = "mail" /\ call.caller = "scan" /\ r = << call.t, call.id >>

\* the records the running _check has fetched and not yet handled
Fetched ==
    IF pc = "scan" THEN { << ScanOrder[tbl], rows[k].id >> : k \in DOMAIN rows }
    ELSE {}

C5_CrashSafe ==
    /\ \A r \in scanSent : ~ScanCalls(r)
    /\ \A r \in crashed \cap Recs(disk) : Flag(disk, r) = 1 => r \in delivered

\* positions in the trace of the last stuur_mail call
At(k, ch) == { i \in DOMAIN last.ev : last.ev[i].k = k /\ last.ev[i].ch = ch }
AtK(k) == { i \in DOMAIN last.ev : last.ev[i].k = k }
\* positions of the _log_mail calls of one kind (line written or write failed)
LogCalls(ch, what) ==
    { i \in DOMAIN last.ev : /\ last.ev[i].k \in {"log", "lost"}
                             /\ last.ev[i].ch = ch
                             /\ last.ev[i].what = what }
\* positions of the lines of one kind that reached mail_debug.log
LogLines(what) ==
    { i \in DOMAIN last.ev : last.ev[i].k = "log" /\ last.ev[i].what = what }

\* C6: stuur_mail tries the channels strictly in configured order (Outlook
\* first, SMTP second), stops at the first channel that succeeds and returns
\* success; no channel is attempted after a success, so at most one channel
\* delivers the message per call.
C6_OrderedFirstSuccess ==
    HasResult =>
        /\ \A i \in At("try", "outlook"), j \in At("try", "smtp") : i < j
        /\ Cardinality(At("try", "outlook")) <= 1
        /\ Cardinality(At("try", "smtp")) <= 1
        /\ (cfg.OUTLOOK_OK /\ At("try", "smtp") # {})
               => (At("try", "outlook") # {} /\ At("fail", "outlook") # {})
        /\ Cardinality(AtK("sent")) <= 1
        /\ \A i \in AtK("sent"), j \in AtK("try") : j < i
        /\ last.ok <=> AtK("sent") # {}

\* C6 witness: both channels are set up, Outlook accepted the message and SMTP
\* was not tried
C6_Witness ==
    /\ HasResult
    /\ cfg.OUTLOOK_OK /\ cfg.SMTP_ENABLED /\ cfg.SMTP_HOST # ""
    /\ last.ok
    /\ At("sent", "outlook") # {}
    /\ At("try", "smtp") = {}

\* C7: when every configured channel fails, or no channel is available,
\* stuur_mail returns False to its caller and raises nothing; the caller goes on.
C7_FailureIsReturned ==
    /\ ~last.raised
    /\ (HasResult /\ AtK("sent") = {}) => ~last.ok
    /\ (call.caller = "scan" /\ AtK("fail") # {}) => pc = "scan_update"

\* C7 witness: a scan's stuur_mail call in which Outlook and SMTP both failed
\* has returned False and the scan is about to go on
C7_Witness ==
    /\ pc = "scan_update"
    /\ ~last.ok
    /\ At("fail", "outlook") # {}
    /\ At("fail", "smtp") # {}

C10_DispatchLeavesStore ==
    [][(pc = "mail" /\ pc' \in {"scan_update", "mail_done"})
          => (disk' = disk /\ txn' = txn)]_vars

\* C10 witness: a stuur_mail call made by the scan for a stored record has
\* returned
C10_Witness ==
    /\ pc = "scan_update"
    /\ << call.t, call.id >> \in Recs(txn)
    /\ Flag(txn, << call.t, call.id >>) = 0

(* ------------------------------------------------------------------ *)
(* The forms with the subject and both ends of the window              *)
(* ------------------------------------------------------------------ *)
\* rows ever inserted through the forms below, over all tables
MaxFormRows == 2

\* what is typed in the field that names the subject (kenteken, naam_klant,
\* leverancier)
FormSubjects == { "AB123C", "XY99Z" }

\* what is typed in the start and end fields: nothing; a first window; one that
\* overlaps it; one that follows it; an end before the start; a start that is
\* no date
FormWindows ==
    { [start |-> EmptyText,         eind |-> EmptyText],
      [start |-> YMD(2024, 1, 1),   eind |-> YMD(2024, 6, 30)],
      [start |-> YMD(2024, 6, 15),  eind |-> YMD(2024, 12, 31)],
      [start |-> YMD(2024, 7, 1),   eind |-> YMD(2024, 12, 31)],
      [start |-> YMD(2024, 6, 30),  eind |-> YMD(2024, 1, 1)],
      [start |-> JunkText,          eind |-> YMD(2024, 6, 30)] }

\* the start column of a table; gehandicapten has none
StartOf(t, start) == IF t = "gehandicapten" THEN NullText ELSE start

\* INSERT INTO t (<form fields>) VALUES (...): the fields as typed, stripped;
\* melding_verzonden takes its DEFAULT 0
InsertForm(store, t, subj, w) ==
    LET id == store[t].seq + 1
    IN  [store EXCEPT ![t] =
            [seq  |-> id,
             rows |-> [i \in DOMAIN store[t].rows \cup {id} |->
                          IF i = id
                          THEN [subj |-> subj, start |-> StartOf(t, w.start),
                                eind |-> w.eind, melding |-> 0]
                          ELSE store[t].rows[i]]]]

\* UPDATE t SET <form fields> WHERE id=:id
UpdateForm(store, t, id, subj, w) ==
    [store EXCEPT ![t].rows[id] =
        [@ EXCEPT !.subj = subj, !.start = StartOf(t, w.start), !.eind = w.eind]]

\* _norm(v) of a date column: None reads as the empty string
norm(v) == IF v.kind = "null" THEN EmptyText ELSE v

InitForm ==
    /\ cfg \in Configs
    /\ probe = NoProbe
    /\ now = 0
    /\ disk = EmptyStore
    /\ txn = EmptyStore
    /\ pc = "idle"
    /\ vandaag = Day0
    /\ tbl = 0
    /\ rows = << >>
    /\ call = NoCall
    /\ last = NoResult
    /\ delivered = {}
    /\ sameEnd = {}
    /\ attempted = {}
    /\ crashed = {}
    /\ scanSent = {}
    /\ maillog = NotWatched
    /\ inst = NoInst

\* opslaan of formulier_u / formulier_g / formulier_c without a record: the
\* typed fields are inserted as they are and committed; then (not for
\* contracten) the notification mail
formulier_insert ==
    /\ pc = "idle"
    /\ Inserted(txn) < MaxFormRows
    /\ \E t \in Tables, subj \in FormSubjects, w \in FormWindows :
         /\ txn' = InsertForm(txn, t, subj, w)
         /\ disk' = InsertForm(txn, t, subj, w)
         /\ IF t = "contracten"
            THEN UNCHANGED << pc, call >>
            ELSE /\ pc' = "mail"
                 /\ call' = [caller |-> "form", t |-> t, id |-> txn[t].seq + 1,
                             show_errors |-> TRUE]
    /\ UNCHANGED << env, now, scan, last, hist >>

\* opslaan with a record: the typed fields are written over the row and
\* committed; then (not for contracten) a mail when build_changes finds a
\* difference; other = some other field was changed
formulier_update ==
    /\ pc = "idle"
    /\ \E t \in Tables, subj \in FormSubjects, w \in FormWindows, other \in BOOLEAN :
       \E id \in DOMAIN txn[t].rows :
         LET old == txn[t].rows[id]
             changed == \/ other
                        \/ old.subj # subj
                        \/ norm(old.start) # norm(StartOf(t, w.start))
                        \/ norm(old.eind) # w.eind
         IN  /\ txn' = UpdateForm(txn, t, id, subj, w)
             /\ disk' = UpdateForm(txn, t, id, subj, w)
             /\ IF t = "contracten" \/ ~changed
                THEN UNCHANGED << pc, call >>
                ELSE /\ pc' = "mail"
                     /\ call' = [caller |-> "form", t |-> t, id |-> id,
                                 show_errors |-> TRUE]
    /\ UNCHANGED << env, now, scan, last, hist >>

NextForm ==
    \/ formulier_insert
    \/ formulier_update
    \/ verwijder
    \/ stuur_mail
    \/ MailDone

SpecForm == InitForm /\ [][NextForm]_vars

\* a date field that holds no bound
Absent(x) == x.kind \in {"null", "empty"}
\* a stored window both of whose bounds are absent or a date, in order
LoOrd(x) == IF Absent(x) THEN 0 ELSE ToOrdinal(ParseDate(x).date)
HiOrd(x) == IF Absent(x) THEN ToOrdinal(<< 2026, 12, 31 >>) + 1
            ELSE ToOrdinal(ParseDate(x).date)
WellFormed(x) == Absent(x) \/ ParseDate(x).ok
ValidWindow(r) ==
    /\ WellFormed(r.start)
    /\ WellFormed(r.eind)
    /\ LoOrd(r.start) <= HiOrd(r.eind)
\* two closed windows share a day
Overlap(a, b) ==
    /\ LoOrd(a.start) <= HiOrd(b.eind)
    /\ HiOrd(a.eind) >= LoOrd(b.start)

\* C11: after any sequence of creates and edits no two stored records of the
\* same category and subject have overlapping windows (an absent bound is an
\* open end): a save that would create an overlap is blocked.
C11_NoOverlap ==
    \A t \in Tables : \A i, j \in DOMAIN disk[t].rows :
        ( /\ i # j
          /\ disk[t].rows[i].subj = disk[t].rows[j].subj
          /\ ValidWindow(disk[t].rows[i])
          /\ ValidWindow(disk[t].rows[j]) )
        => ~Overlap(disk[t].rows[i], disk[t].rows[j])

(* ------------------------------------------------------------------ *)
(* The conflict detector (find_conflicts), from its specification      *)
(* ------------------------------------------------------------------ *)
\* rows of the table find_conflicts is examined on
MaxConfRows == 2

\* subjects as typed, character by character
ConfSubjects ==
    { << "A", "B", "1" >>, << "a", "b", "-", "1" >>, << "A", "B", "2" >> }

\* case-fold of one character
Fold(c) == CASE c = "a" -> "A" [] c = "b" -> "B" [] OTHER -> c

\* normalisation of a subject: separators stripped, case folded
NormSubject(s) ==
    LET kept == SelectSeq(s, LAMBDA c : c \notin {"-", " ", "."})
    IN  [i \in 1..Len(kept) |-> Fold(kept[i])]

\* the earliest and the latest representable date
MinDate == << 2024, 1, 1 >>
MaxDate == << 2026, 12, 31 >>

\* an optional bound as a date: absent is the open end on its side
StartBound(x) == IF Absent(x) THEN MinDate ELSE ParseDate(x).date
EndBound(x) == IF Absent(x) THEN MaxDate ELSE ParseDate(x).date

\* mutant of FindConflicts: windows that only touch do not conflict
FindConflicts_Strict(store, category, subject, ws, we, exclude_id) ==
    IF \/ ~(Absent(ws) \/ ParseDate(ws).ok)
       \/ ~(Absent(we) \/ ParseDate(we).ok)
       \/ (~Absent(ws) /\ ~Absent(we)
             /\ ~DateLE(ParseDate(ws).date, ParseDate(we).date))
    THEN [error |-> TRUE, found |-> {}]
    ELSE [error |-> FALSE,
          found |-> { i \in DOMAIN store[category].rows :
                        LET b == store[category].rows[i]
                        IN  /\ i # exclude_id
                            /\ NormSubject(b.subj) = NormSubject(subject)
                            /\ DateLE(StartBound(ws), EndBound(b.eind))
                            /\ DateLE(StartBound(b.start), EndBound(we))
                            /\ StartBound(ws) # EndBound(b.eind)
                            /\ StartBound(b.start) # EndBound(we) }]

\* find_conflicts(category, subject, window_start?, window_end?, exclude_id?):
\* a ValidationError for a malformed bound or for start > end, else the
\* records of the category with the same normalised subject, other than
\* exclude_id, for which a_start <= b_end and a_end >= b_start
FindConflicts(store, category, subject, ws, we, exclude_id) ==
    IF \/ ~(Absent(ws) \/ ParseDate(ws).ok)
       \/ ~(Absent(we) \/ ParseDate(we).ok)
       \/ (~Absent(ws) /\ ~Absent(we)
             /\ ~DateLE(ParseDate(ws).date, ParseDate(we).date))
    THEN [error |-> TRUE, found |-> {}]
    ELSE [error |-> FALSE,
          found |-> { i \in DOMAIN store[category].rows :
                        LET b == store[category].rows[i]
                        IN  /\ i # exclude_id
                            /\ NormSubject(b.subj) = NormSubject(subject)
                            /\ DateLE(StartBound(ws), EndBound(b.eind))
                            /\ DateLE(StartBound(b.start), EndBound(we)) }]

\* windows of the stored records: open on both sides, open at the end, the
\* first half of 2024, the second half, the last day of the first half
ConfWindows ==
    { [start |-> NullText,         eind |-> NullText],
      [start |-> YMD(2024, 7, 1),  eind |-> NullText],
      [start |-> YMD(2024, 1, 1),  eind |-> YMD(2024, 6, 30)],
      [start |-> YMD(2024, 7, 1),  eind |-> YMD(2024, 12, 31)],
      [start |-> YMD(2024, 6, 30), eind |-> YMD(2024, 6, 30)] }

\* candidate windows: those, one open at the start, one that overlaps the
\* first half, one with its end before its start, one malformed
CandWindows ==
    ConfWindows
    \cup { [start |-> NullText,         eind |-> YMD(2024, 6, 30)],
           [start |-> YMD(2024, 6, 15), eind |-> YMD(2024, 12, 31)],
           [start |-> YMD(2024, 6, 30), eind |-> YMD(2024, 1, 1)],
           [start |-> JunkText,         eind |-> YMD(2024, 6, 30)] }

\* the categories whose records have a start and an end
ConfTables == { "uitzonderingen", "contracten" }

NoAnswer == [t |-> "", subj |-> << >>, start |-> NullText, eind |-> NullText,
             exclude |-> 0, res |-> [error |-> FALSE, found |-> {}],
             done |-> FALSE]

InitConf ==
    /\ cfg = [OUTLOOK_OK |-> FALSE, SMTP_ENABLED |-> FALSE, SMTP_HOST |-> ""]
    /\ probe = NoAnswer
    /\ now = 0
    /\ pc = "idle"
    /\ \E t \in ConfTables, n \in 0..MaxConfRows :
         \E rs \in [1..n -> { [subj |-> sb, start |-> w.start, eind |-> w.eind,
                               melding |-> 0] :
                                 sb \in ConfSubjects, w \in ConfWindows }] :
            disk = [EmptyStore EXCEPT ![t] = [seq |-> n, rows |-> rs]]
    /\ txn = disk
    /\ vandaag = Day0
    /\ tbl = 0
    /\ rows = << >>
    /\ call = NoCall
    /\ last = NoResult
    /\ delivered = {}
    /\ sameEnd = {}
    /\ attempted = {}
    /\ crashed = {}
    /\ scanSent = {}
    /\ maillog = NotWatched
    /\ inst = NoInst

\* one call of find_conflicts on the store
find_conflicts ==
    /\ ~probe.done
    /\ \E t \in ConfTables, sb \in ConfSubjects, w \in CandWindows,
          ex \in 0..MaxConfRows :
         probe' = [t |-> t, subj |-> sb, start |-> w.start, eind |-> w.eind,
                   exclude |-> ex, done |-> TRUE,
                   res |-> FindConflicts(txn, t, sb, w.start, w.eind, ex)]
    /\ UNCHANGED << cfg, inst, maillog, now, disk, txn, pc, scan, mail, hist >>

NextConf == find_conflicts

SpecConf == InitConf /\ [][NextConf]_vars

\* which typed subjects name the same subject
SubjectKey(s) ==
    CASE s = << "A", "B", "1" >> -> 1
      [] s = << "a", "b", "-", "1" >> -> 1
      [] OTHER -> 2

\* C12: find_conflicts returns exactly the existing records of the same
\* category and subject, other than exclude_id, whose closed window satisfies
\* a_start <= b_end and a_end >= b_start against the candidate: it contains
\* every record whose window overlaps or touches the candidate's, and none
\* whose window is a day or more apart from it.
C12_ConflictsAreOverlaps ==
    (probe.done /\ ~probe.res.error) =>
        LET R    == txn[probe.t].rows
            cand == [start |-> probe.start, eind |-> probe.eind]
            Same == { i \in DOMAIN R : /\ i # probe.exclude
                                       /\ SubjectKey(R[i].subj) = SubjectKey(probe.subj) }
        IN  /\ probe.res.found = { i \in Same : Overlap(cand, R[i]) }
            /\ \A i \in Same :
                 (HiOrd(cand.eind) = LoOrd(R[i].start)
                    \/ HiOrd(R[i].eind) = LoOrd(cand.start))
                 => i \in probe.res.found
            /\ \A i \in Same :
                 (HiOrd(cand.eind) + 1 <= LoOrd(R[i].start)
                    \/ HiOrd(R[i].eind) + 1 <= LoOrd(cand.start))
                 => i \notin probe.res.found

\* C12 witness: the candidate of Scenario A, typed with separators and in
\* lower case, is answered with the record of the first half of 2024 while
\* another record of the subject is excluded
C12_Witness ==
    /\ probe.done
    /\ ~probe.res.error
    /\ probe.subj = << "a", "b", "-", "1" >>
    /\ probe.start = YMD(2024, 6, 15)
    /\ probe.exclude \in DOMAIN txn[probe.t].rows
    /\ \E i \in probe.res.found :
         /\ txn[probe.t].rows[i].subj = << "A", "B", "1" >>
         /\ txn[probe.t].rows[i].eind = YMD(2024, 6, 30)

\* C13: after any sequence of creates and edits every stored record that has
\* both a start and an end has start <= end, and no stored bound is malformed:
\* a save with a malformed bound or with start > end is rejected and leaves
\* the store unchanged.
C13_WindowsValid ==
    \A t \in Tables : \A i \in DOMAIN disk[t].rows : ValidWindow(disk[t].rows[i])

(* ------------------------------------------------------------------ *)
(* The program with mail_debug.log watched                             *)
(* ------------------------------------------------------------------ *)
InitLog ==
    /\ cfg \in Configs
    /\ probe = NoProbe
    /\ now = 0
    /\ disk = EmptyStore
    /\ txn = EmptyStore
    /\ pc = "down"
    /\ vandaag = Day0
    /\ tbl = 0
    /\ rows = << >>
    /\ call = NoCall
    /\ last = NoResult
    /\ delivered = {}
    /\ sameEnd = {}
    /\ attempted = {}
    /\ crashed = {}
    /\ scanSent = {}
    /\ maillog = Watched
    /\ inst = NoInst

SpecLog == InitLog /\ [][Next]_vars

\* the lines a step added to mail_debug.log that record a sent message
NewSent ==
    { i \in (Len(maillog.lines) + 1)..Len(maillog'.lines) :
        maillog'.lines[i].what = "verzonden" }

\* every line of the log is still there, unchanged, after the step
LogKept ==
    /\ Len(maillog'.lines) >= Len(maillog.lines)
    /\ \A i \in 1..Len(maillog.lines) : maillog'.lines[i] = maillog.lines[i]

\* the step is a stuur_mail call returning
Returns == pc = "mail" /\ pc' \in {"scan_update", "mail_done"}

C15_OneEntryPerMutation ==
    [][ /\ (pc = "idle" /\ pc' = "idle" /\ disk' # disk)
              => Len(maillog'.lines) = Len(maillog.lines) + 1
        /\ (pc = "mail_done" /\ call.caller = "form" /\ pc' = "idle")
              => Len(Written(last.ev)) = 1 ]_vars

\* C16: if the write of the sent entry fails after a successful dispatch, the
\* record's flag stays unset, so that the next scan dispatches the record
\* again: the flag is never set for a record whose successful dispatch has no
\* entry in the trail.
C16_NoEntryNoFlag ==
    [][ ( /\ pc = "scan_update"
          /\ pc' = "scan"
          /\ last.ok
          /\ LogLines("verzonden") = {} )
        => Flag(txn', << call.t, call.id >>) = 0 ]_vars

(* ------------------------------------------------------------------ *)
(* Two instances of the application started on the same database       *)
(* ------------------------------------------------------------------ *)
\* rows of the table the two instances find at their start
MaxTwoRows == 2

Instances == { 1, 2 }
Other(i) == 3 - i

\* an instance before its start: pc its position, tbl and rows the locals of
\* check_verlopen, id the row stuur_mail is called for, w whether its
\* connection holds the write lock, txn the database as its open transaction
\* sees it, sent the records it has called stuur_mail for
Off == [pc |-> "off", tbl |-> 0, rows |-> << >>, id |-> 0, w |-> FALSE,
        txn |-> EmptyStore, sent |-> {}]

\* what a statement of instance i reads: its own transaction once it has
\* written, else the committed database
View(i) == IF inst[i].w THEN inst[i].txn ELSE disk

InitTwo ==
    /\ cfg \in Configs
    /\ probe = NoProbe
    /\ now = 0
    /\ pc = "down"
    /\ \E t \in Tables, n \in 1..MaxTwoRows :
         \E rs \in [1..n -> [eind : { YMD(2025, 1, 1), YMD(2025, 1, 16) },
                             melding : {0, 1}]] :
            disk = [EmptyStore EXCEPT ![t] = [seq |-> n, rows |-> rs]]
    /\ txn = disk
    /\ vandaag = Day0
    /\ tbl = 0
    /\ rows = << >>
    /\ call = NoCall
    /\ last = NoResult
    /\ delivered = {}
    /\ sameEnd = {}
    /\ attempted = {}
    /\ crashed = {}
    /\ scanSent = {}
    /\ maillog = NotWatched
    /\ inst = [i \in Instances |-> Off]

one == << cfg, probe, now, txn, pc, scan, mail, hist, maillog >>

\* App.__init__ of instance i up to the first SELECT of check_verlopen
TwoStart(i) ==
    /\ inst[i].pc = "off"
    /\ inst' = [inst EXCEPT ![i] =
                  [@ EXCEPT !.pc = "scan", !.tbl = 1,
                            !.rows = SelectRows(disk, ScanOrder[1])]]
    /\ UNCHANGED << one, disk >>

\* mutant of TwoScanRow: a selected row is flagged at once, before its dispatch
TwoScanRow_Marks(i) ==
    /\ inst[i].pc = "scan"
    /\ inst[i].rows # << >>
    /\ LET r == Head(inst[i].rows)
           t == ScanOrder[inst[i].tbl]
           p == ParseDate(r.eind)
       IN  IF p.ok /\ InWindow(vandaag, p.date, DaysBefore(t))
           THEN /\ inst' = [inst EXCEPT ![i] = [@ EXCEPT !.pc = "mail", !.id = r.id]]
                /\ disk' = MarkSent(disk, t, r.id)
           ELSE /\ inst' = [inst EXCEPT ![i] = [@ EXCEPT !.rows = Tail(@)]]
                /\ UNCHANGED disk
    /\ UNCHANGED one

\* _check of instance i: one iteration of the loop up to the stuur_mail call
TwoScanRow(i) ==
    /\ inst[i].pc = "scan"
    /\ inst[i].rows # << >>
    /\ LET r == Head(inst[i].rows)
           t == ScanOrder[inst[i].tbl]
           p == ParseDate(r.eind)
       IN  inst' = [inst EXCEPT ![i] =
                      IF p.ok /\ InWindow(vandaag, p.date, DaysBefore(t))
                      THEN [@ EXCEPT !.pc = "mail", !.id = r.id]
                      ELSE [@ EXCEPT !.rows = Tail(@)]]
    /\ UNCHANGED << one, disk >>

\* stuur_mail called by the scan of instance i; its result is not looked at
TwoMail(i) ==
    /\ inst[i].pc = "mail"
    /\ \E in \in MailInputs :
         /\ ~StuurMail(cfg, TRUE, in).raised
         /\ inst' = [inst EXCEPT ![i] =
                        [@ EXCEPT !.pc = "scan_update",
                                  !.sent = @ \cup {<< ScanOrder[inst[i].tbl],
                                                      inst[i].id >>}]]
    /\ UNCHANGED << one, disk >>

\* _check of instance i: the UPDATE after stuur_mail; it takes the write lock,
\* waiting (busy_timeout) while the other instance holds it
TwoUpdate(i) ==
    /\ inst[i].pc = "scan_update"
    /\ ~inst[Other(i)].w
    /\ inst' = [inst EXCEPT ![i] =
                  [@ EXCEPT !.pc = "scan", !.w = TRUE, !.rows = Tail(@),
                            !.txn = MarkSent(View(i), ScanOrder[inst[i].tbl],
                                             inst[i].id)]]
    /\ UNCHANGED << one, disk >>

\* the UPDATE of instance i gives up after busy_timeout: "database is locked"
\* leaves App.__init__ and the instance ends
TwoBusy(i) ==
    /\ inst[i].pc = "scan_update"
    /\ inst[Other(i)].w
    /\ inst' = [inst EXCEPT ![i] =
                  [@ EXCEPT !.pc = "dead", !.rows = << >>, !.tbl = 0, !.id = 0]]
    /\ UNCHANGED << one, disk >>

\* check_verlopen of instance i: the next _check call, or the commit
TwoNext(i) ==
    /\ inst[i].pc = "scan"
    /\ inst[i].rows = << >>
    /\ IF inst[i].tbl < Len(ScanOrder)
       THEN /\ inst' = [inst EXCEPT ![i] =
                          [@ EXCEPT !.tbl = @ + 1,
                                    !.rows = SelectRows(View(i),
                                                 ScanOrder[inst[i].tbl + 1])]]
            /\ UNCHANGED disk
       ELSE /\ disk' = View(i)
            /\ inst' = [inst EXCEPT ![i] =
                          [@ EXCEPT !.pc = "idle", !.w = FALSE, !.tbl = 0,
                                    !.id = 0, !.txn = EmptyStore]]
    /\ UNCHANGED one

NextTwo ==
    \E i \in Instances :
        \/ TwoStart(i)
        \/ TwoScanRow(i)
        \/ TwoMail(i)
        \/ TwoUpdate(i)
        \/ TwoBusy(i)
        \/ TwoNext(i)

SpecTwo == InitTwo /\ [][NextTwo]_vars

\* C17: when two scans run at the same time over the same store, a record is
\* claimed before it is dispatched, so that the second scan skips it: no
\* record is dispatched by both scans.
C17_NoDoubleDispatch ==
    inst[1].sent \cap inst[2].sent = {}

\* C18: for a record handled by a scan the order is dispatch success, then the
\* update of its flag, then the entry in the trail: whenever the sent entry of
\* the record's notification has been written, the flag update it describes
\* has been made.
C18_EntryAfterFlag ==
    (pc = "scan_update" /\ call.caller = "scan" /\ LogLines("verzonden") # {})
        => Flag(txn, << call.t, call.id >>) = 1

\* instance i is selecting in this step: it starts, fetches a table or walks
\* the fetched rows up to the next due one
Selecting(i) ==
    /\ inst'[i] # inst[i]
    /\ inst[i].pc \in {"off", "scan"}
    /\ inst'[i].pc \in {"scan", "mail"}

\* both scans have walked the same table up to their first due row and
\* neither has dispatched anything yet
BothSelected ==
    /\ inst[1].pc = "mail"
    /\ inst[2].pc = "mail"
    /\ inst[1].tbl = inst[2].tbl
    /\ inst[1].sent = {}
    /\ inst[2].sent = {}

\* C19: selecting due records is a pure read and idempotent: a selection step
\* changes no record, and two scans with the same reference date and no
\* dispatch in between select the same records.
C19_SelectionPureAndIdempotent ==
    [][ /\ \A i \in Instances :
             Selecting(i) => (disk' = disk /\ View(i)' = View(i))
        /\ BothSelected' => inst'[1].id = inst'[2].id ]_vars

\* C19 witness: both scans have selected the second row of a table whose
\* first row is not due, and nothing has been dispatched
C19_Witness ==
    /\ BothSelected
    /\ inst[1].id = 2
    /\ inst[2].id = 2
    /\ \E t \in Tables : /\ 1 \in DOMAIN disk[t].rows
                         /\ disk[t].rows[1].melding = 0
                         /\ disk[t].rows[2].melding = 0

(* ------------------------------------------------------------------ *)
(* The expiry scan of check_verlopen on 2025-01-01 over one table whose *)
(* end dates lie around the two warning windows (SpecCat)               *)
(* ------------------------------------------------------------------ *)
MaxCatRows == 2

\* end dates are drawn at these distances from Day0: 2025-01-15, 2025-01-16,
\* 2025-03-01, 2025-04-01, 2025-04-02 and 2025-05-15
CatOffsets == { 14, 15, 59, 90, 91, 134 }

CatTexts ==
    { YMD(DatePlusDays(Day0, k)[1], DatePlusDays(Day0, k)[2],
          DatePlusDays(Day0, k)[3]) : k \in CatOffsets }

InitCat ==
    /\ cfg \in Configs
    /\ probe = NoProbe
    /\ now = 0
    /\ pc = "down"
    /\ vandaag = Day0
    /\ \E t \in Tables, n \in 1..MaxCatRows :
         \E rs \in [1..n -> [eind : CatTexts, melding : {0}]] :
            disk = [EmptyStore EXCEPT ![t] = [seq |-> n, rows |-> rs]]
    /\ txn = disk
    /\ tbl = 0
    /\ rows = << >>
    /\ call = NoCall
    /\ last = NoResult
    /\ delivered = {}
    /\ sameEnd = {}
    /\ attempted = {}
    /\ crashed = {}
    /\ scanSent = {}
    /\ maillog = NotWatched
    /\ inst = NoInst

\* check_verlopen, run once by App.__init__
NextCat == Start \/ ScanRow \/ stuur_mail \/ ScanUpdate \/ ScanNext

SpecCat == InitCat /\ [][NextCat]_vars

\* the _check call of table ScanOrder[tbl] has handled all its rows
CheckEnded == pc = "scan" /\ rows = << >>

\* ids of the rows the ended _check call has called stuur_mail for
CheckSent == { x[2] : x \in { y \in scanSent : y[1] = ScanOrder[tbl] } }

\* days from vandaag to the end date of row id of table t
DaysOut(t, id) == ToOrdinal(ParseDate(txn[t].rows[id].eind).date) - ToOrdinal(vandaag)

\* C20: each category is scanned with its own warning window, 14 days for
\* uitzonderingen and gehandicapten and 90 days for contracten; on 2025-01-01
\* a contract ending 2025-03-01 is due, one ending 2025-05-15 is not, and an
\* exception ending 59 days out is not.
C20_OwnWindowPerCategory ==
    CheckEnded =>
        LET t == ScanOrder[tbl]
        IN  \A id \in DOMAIN txn[t].rows :
              /\ id \in CheckSent <=>
                     /\ 0 <= DaysOut(t, id)
                     /\ DaysOut(t, id) <= (IF t = "contracten" THEN 90 ELSE 14)
              /\ (t = "contracten" /\ txn[t].rows[id].eind = YMD(2025, 3, 1))
                     => id \in CheckSent
              /\ (t = "contracten" /\ txn[t].rows[id].eind = YMD(2025, 5, 15))
                     => id \notin CheckSent
              /\ (t = "uitzonderingen" /\ DaysOut(t, id) = 59)
                     => id \notin CheckSent

\* C20 witness: the contracten scan of 2025-01-01 has ended with a mail for
\* the contract ending 2025-03-01 and none for the one ending 2025-05-15
C20_Witness ==
    /\ CheckEnded
    /\ ScanOrder[tbl] = "contracten"
    /\ vandaag = << 2025, 1, 1 >>
    /\ \E a, b \in DOMAIN txn["contracten"].rows :
         /\ txn["contracten"].rows[a].eind = YMD(2025, 3, 1)
         /\ a \in CheckSent
         /\ txn["contracten"].rows[b].eind = YMD(2025, 5, 15)
         /\ b \notin CheckSent

(* ------------------------------------------------------------------ *)
(* The flag and the records under the operations of the program        *)
(* ------------------------------------------------------------------ *)
\* the records two stores both hold
Kept(a, b) == Recs(a) \cap Recs(b)

\* no record kept from store a to store b has its flag taken back
FlagsStay(a, b) == \A r \in Kept(a, b) : Flag(a, r) = 1 => Flag(b, r) = 1

\* the step is the death of the process, not an operation of the program
Dies == pc \in {"scan", "mail", "scan_update", "mail_done"} /\ pc' = "down"

\* C21: a record's melding_verzonden is monotonic: no operation that keeps
\* the record (scan, dispatch, form edit, test mail, refresh) takes it from 1
\* back to 0, neither in the committed database nor in the connection's view.
C21_FlagMonotonic ==
    [][ /\ FlagsStay(disk, disk')
        /\ ~Dies => FlagsStay(txn, txn') ]_vars

\* C21 witness: a flagged record has been edited after its flag was set (its
\* end date is now blank, which no scan would have flagged) and is still flagged
C21_Witness ==
    \E r \in Recs(disk) :
        /\ Flag(disk, r) = 1
        /\ r \in attempted
        /\ EndOf(disk, r) = EmptyText
        /\ pc = "idle"

\* store b holds every record of store a, with the end date it had in a
RecordsStay(a, b) ==
    /\ Recs(a) \subseteq Recs(b)
    /\ \A r \in Recs(a) : EndOf(b, r) = EndOf(a, r)

\* the step is one of the expiry scan or of a stuur_mail call
EngineStep == pc \in {"down", "scan", "mail", "scan_update"}

\* C22: the scan and the dispatch never delete a record and the scan changes
\* nothing of a record but its melding_verzonden; a record leaves the store
\* only through a confirmed verwijder of the user.
C22_EngineKeepsRecords ==
    [][ /\ EngineStep => (RecordsStay(disk, disk') /\ RecordsStay(txn, txn'))
        /\ \A r \in Recs(disk) \ Recs(disk') :
              /\ pc = "idle"
              /\ pc' = "idle"
              /\ disk' = DeleteRow(disk, r[1], r[2]) ]_vars

\* C22 witness: the scan has flagged a record in its transaction; the record
\* is there with the end date it had
C22_Witness ==
    /\ pc = "scan"
    /\ \E r \in Recs(disk) :
         /\ r \in Recs(txn)
         /\ Flag(disk, r) = 0
         /\ Flag(txn, r) = 1
         /\ EndOf(txn, r) = EndOf(disk, r)

\* the step belongs to a run of _test_mail
TestStep == call.caller = "test" \/ call'.caller = "test"

\* C23: _test_mail calls stuur_mail directly and leaves every record's
\* melding_verzonden as it was, whether the test mail goes out or not.
C23_TestMailKeepsFlags ==
    [][ TestStep => (disk' = disk /\ txn' = txn) ]_vars

\* C23 witness: a test mail has gone out while an unflagged record is stored
C23_Witness ==
    /\ pc = "mail_done"
    /\ call.caller = "test"
    /\ last.ok
    /\ \E r \in Recs(disk) : Flag(disk, r) = 0 /\ Flag(txn, r) = 0

\* the messageboxes the last stuur_mail call has shown
Dialogs == SelectSeq(last.ev, LAMBDA e : e.k = "dlg")

\* C24: a dispatch failure during the expiry scan is never shown to the user:
\* the stuur_mail call of a scan raises no dialog, the failure is only logged.
C24_ScanFailureNoDialog ==
    (pc = "scan_update" /\ call.caller = "scan" /\ ~last.ok) => Dialogs = << >>

\* the step is taken from the idle window by a form (or is a day passing)
FormStep == pc = "idle" /\ pc' \in {"idle", "mail"} /\ call'.caller # "test"

\* the kept records have in b the flag they had in a
FlagsSame(a, b) == \A r \in Kept(a, b) : Flag(b, r) = Flag(a, r)

\* flagged records whose end date a form has changed since a scan mailed them
Renewed == { r \in (delivered \ sameEnd) \cap Recs(disk) : Flag(disk, r) = 1 }

\* C25: editing a record through a form never changes its melding_verzonden,
\* also when the end date changes: a flagged record whose end date is extended
\* or renewed is never fetched or mailed by a later scan.
C25_EditKeepsFlag ==
    [][ /\ FormStep => (FlagsSame(disk, disk') /\ FlagsSame(txn, txn'))
        /\ \A r \in Renewed : r \notin Fetched' /\ ~ScanCalls(r)' ]_vars

\* C25 witness: a scan has been through the last table while a flagged record
\* with a renewed end date inside the warning window is stored, and has sent
\* nothing for it
C25_Witness ==
    /\ pc = "scan"
    /\ tbl = Len(ScanOrder)
    /\ rows = << >>
    /\ \E r \in Renewed :
         /\ ParseDate(EndOf(disk, r)).ok
         /\ InWindow(vandaag, ParseDate(EndOf(disk, r)).date, DaysBefore(r[1]))
         /\ r \notin scanSent

(* ------------------------------------------------------------------ *)
(* A database file that create_tables made or that migrate_db brought  *)
(* up to date (SpecMig)                                                *)
(* ------------------------------------------------------------------ *)
MaxMigRows == 2

\* a table as create_tables makes it: melding_verzonden INTEGER DEFAULT 0
CreatedTable == [seq |-> 0, rows |-> << >>, dflt |-> 0]

\* a table from before the column existed, after migrate_db: ALTER TABLE ...
\* ADD COLUMN melding_verzonden INTEGER declares no default, so the rows that
\* were there hold NULL and so does every row inserted without the column
MigratedTables ==
    { [seq |-> Len(rs), rows |-> rs, dflt |-> NullFlag] :
        rs \in UNION { [1..k -> [eind : FormTexts, melding : {NullFlag}]] :
                         k \in 0..(MaxMigRows - 1) } }

\* INSERT INTO t (<form fields>) VALUES (...): melding_verzonden takes the
\* default its column declares
InsertInto(store, t, eind) ==
    LET id == store[t].seq + 1
    IN  [store EXCEPT ![t].seq = id,
                      ![t].rows = [i \in DOMAIN store[t].rows \cup {id} |->
                                     IF i = id
                                     THEN [eind |-> eind, melding |-> store[t].dflt]
                                     ELSE store[t].rows[i]]]

\* App.__init__ after create_tables and migrate_db: one table may be a
\* migrated one, the others are as create_tables makes them
InitMig ==
    /\ cfg = [OUTLOOK_OK |-> TRUE, SMTP_ENABLED |-> FALSE, SMTP_HOST |-> ""]
    /\ probe = NoProbe
    /\ now = 0
    /\ pc = "down"
    /\ vandaag = Day0
    /\ \E t \in Tables, tab \in MigratedTables \cup {CreatedTable} :
         disk = [u \in Tables |-> IF u = t THEN tab ELSE CreatedTable]
    /\ txn = disk
    /\ tbl = 0
    /\ rows = << >>
    /\ call = NoCall
    /\ last = NoResult
    /\ delivered = {}
    /\ sameEnd = {}
    /\ attempted = {}
    /\ crashed = {}
    /\ scanSent = {}
    /\ maillog = NotWatched
    /\ inst = NoInst

\* formulier_u / formulier_g / formulier_c, opslaan without a record
opslaan_into ==
    /\ pc = "idle"
    /\ Inserted(txn) < MaxMigRows
    /\ \E t \in Tables, e \in FormTexts :
         /\ txn' = InsertInto(txn, t, e)
         /\ disk' = InsertInto(txn, t, e)
         /\ IF t = "contracten"
            THEN UNCHANGED << pc, call >>
            ELSE /\ pc' = "mail"
                 /\ call' = [caller |-> "form", t |-> t, id |-> txn[t].seq + 1,
                             show_errors |-> TRUE]
    /\ UNCHANGED << env, now, scan, last, hist >>

NextMig ==
    \/ Start
    \/ ScanRow
    \/ ScanUpdate
    \/ ScanNext
    \/ stuur_mail
    \/ MailDone
    \/ Close
    \/ opslaan_into

SpecMig == InitMig /\ [][NextMig]_vars

\* the row a form has just inserted into table t of the connection's view
NewRow(t) == txn'[t].rows[txn'[t].seq]

\* C26: every record created through a form starts with melding_verzonden = 0
\* and is fetched by the scan's melding_verzonden=0 selection, in a table made
\* by create_tables and in a table migrate_db added the column to.
C26_NewRecordUnflagged ==
    [][ \A t \in Tables :
          (pc = "idle" /\ txn'[t].seq > txn[t].seq) =>
              /\ NewRow(t).melding = 0
              /\ NewRow(t).eind.kind # "null" =>
                    \E k \in DOMAIN SelectRows(txn', t) :
                        SelectRows(txn', t)[k].id = txn'[t].seq ]_vars

(* ------------------------------------------------------------------ *)
(* The expiry scan over end dates that are not proper dates (SpecBad)  *)
(* ------------------------------------------------------------------ *)
MaxBadRows == 2

\* end-date texts a form can have stored: blank, other text, a day that does
\* not exist, Day0 without leading zeros, Day0
BadTexts == { EmptyText, JunkText, YMD(2025, 2, 30), Unpadded(2025, 1, 1),
              YMD(2025, 1, 1) }

InitBad ==
    /\ cfg \in Configs
    /\ probe = NoProbe
    /\ now = 0
    /\ pc = "down"
    /\ vandaag = Day0
    /\ \E t \in Tables, n \in 1..MaxBadRows :
         \E rs \in [1..n -> [eind : BadTexts, melding : {0}]] :
            disk = [EmptyStore EXCEPT ![t] = [seq |-> n, rows |-> rs]]
    /\ txn = disk
    /\ tbl = 0
    /\ rows = << >>
    /\ call = NoCall
    /\ last = NoResult
    /\ delivered = {}
    /\ sameEnd = {}
    /\ attempted = {}
    /\ crashed = {}
    /\ scanSent = {}
    /\ maillog = NotWatched
    /\ inst = NoInst

SpecBad == InitBad /\ [][NextCat]_vars

\* the text has the form YYYY-MM-DD and names a day of the calendar
WellFormedDate(text) == text.kind = "ymd" /\ ValidDate(text.y, text.m, text.d)

\* the records of the connection's view, whatever their number
AllRecs == { r \in Tables \X (1..MaxBadRows) : r[2] \in DOMAIN txn[r[1]].rows }

\* the rows of the ended _check call's table that lie in its window
InWindowIds ==
    { id \in DOMAIN txn[ScanOrder[tbl]].rows :
        /\ ParseDate(txn[ScanOrder[tbl]].rows[id].eind).ok
        /\ InWindow(vandaag, ParseDate(txn[ScanOrder[tbl]].rows[id].eind).date,
                    DaysBefore(ScanOrder[tbl])) }

\* C27 (as claimed): a record whose stored end date is not a well-formed
\* YYYY-MM-DD date is skipped by every scan: never mailed, flag unchanged.
C27_MalformedSkipped ==
    \A r \in AllRecs :
        ~WellFormedDate(EndOf(txn, r)) => (r \notin attempted /\ Flag(txn, r) = 0)

\* C27 (amended): a record whose stored end date strptime("%Y-%m-%d") does not
\* accept (blank, other text, a day that does not exist) is skipped by every
\* scan without error: never mailed, flag unchanged, and the scan goes on to
\* mail the remaining due records; a date without leading zeros is accepted.
C27_UnparseableSkipped ==
    /\ \A r \in AllRecs :
          ~ParseDate(EndOf(txn, r)).ok => (r \notin attempted /\ Flag(txn, r) = 0)
    /\ ~last.raised
    /\ CheckEnded => CheckSent = InWindowIds

\* C27 witness: the scan of a table has ended; it passed over a blank end
\* date in the first row and mailed the due second row
C27_Witness ==
    /\ CheckEnded
    /\ tbl > 0
    /\ \E t \in Tables :
         /\ t = ScanOrder[tbl]
         /\ DOMAIN txn[t].rows = {1, 2}
         /\ txn[t].rows[1].eind = EmptyText
         /\ txn[t].rows[1].melding = 0
         /\ << t, 1 >> \notin attempted
         /\ << t, 2 >> \in scanSent

(* ------------------------------------------------------------------ *)
(* Scans that are interrupted, over records in all three tables        *)
(* (SpecCrash)                                                         *)
(* ------------------------------------------------------------------ *)
MaxCrashRows == 1

\* end dates: due on Day0 only, and due in every table from the day after
CrashTexts == { YMD(2025, 1, 1), YMD(2025, 1, 16) }

\* a table of k unflagged rows that all end on e
CrashTable(k, e) ==
    [seq |-> k, rows |-> [i \in 1..k |-> [eind |-> e, melding |-> 0]]]

InitCrash ==
    /\ cfg = [OUTLOOK_OK |-> TRUE, SMTP_ENABLED |-> FALSE, SMTP_HOST |-> ""]
    /\ probe = NoProbe
    /\ now = 0
    /\ pc = "down"
    /\ vandaag = Day0
    /\ \E e \in CrashTexts, n \in [Tables -> 0..MaxCrashRows] :
         disk = [t \in Tables |-> CrashTable(n[t], e)]
    /\ txn = disk
    /\ tbl = 0
    /\ rows = << >>
    /\ call = NoCall
    /\ last = NoResult
    /\ delivered = {}
    /\ sameEnd = {}
    /\ attempted = {}
    /\ crashed = {}
    /\ scanSent = {}
    /\ maillog = NotWatched
    /\ inst = NoInst

\* the application is started, scans, is closed or dies, and is started again
NextCrash ==
    \/ Start
    \/ ScanRow
    \/ stuur_mail
    \/ ScanUpdate
    \/ ScanNext
    \/ Crash
    \/ Close
    \/ Tick

SpecCrash == InitCrash /\ [][NextCrash]_vars

\* the step is the conn.commit() that ends a scan
Commits == pc = "scan" /\ pc' = "idle"

\* records an interrupted scan had mailed and whose flag is not yet durable
Redo == { r \in crashed : Flag(disk, r) = 0 }

\* the flags reach the database file only with the one commit that ends the
\* scan, all together; an interrupted scan leaves the file as it was
OneCommit ==
    /\ disk' # disk => (Commits /\ disk' = txn)
    /\ Dies => (disk' = disk /\ txn' = disk /\ \A r \in scanSent : Flag(disk', r) = 0)

\* C28 (as claimed): all flag updates of one scan become durable together in
\* the single commit at its end; when the scan is interrupted after k
\* dispatches and before the commit, none of the k flags is persisted and the
\* next scan mails all k records again.
C28_InterruptedScanRedoesAll ==
    [][ /\ OneCommit
        /\ Commits => Redo \subseteq scanSent ]_vars

\* C28 (amended): ... none of the k flags is persisted and the next scan
\* fetches all k records again and mails again those whose end date still
\* lies in the warning window on the day of that scan.
C28_InterruptedScanRedoesDue ==
    [][ /\ OneCommit
        /\ Start => \A r \in Redo : r[1] = ScanOrder[1] => r \in Fetched'
        /\ (ScanNext /\ ~Commits) =>
              \A r \in Redo : r[1] = ScanOrder[tbl'] => r \in Fetched'
        /\ Commits =>
              \A r \in Redo :
                 InWindow(vandaag, ParseDate(EndOf(disk, r)).date, DaysBefore(r[1]))
                     => r \in scanSent ]_vars

\* C28 witness: a scan that followed an interrupted one has been through all
\* tables and has mailed again two records, of two tables, that the
\* interrupted scan had mailed; neither flag is in the database file yet
C28_Witness ==
    /\ pc = "scan"
    /\ tbl = Len(ScanOrder)
    /\ rows = << >>
    /\ \E r, q \in Redo \cap scanSent : r[1] # q[1]

(* ------------------------------------------------------------------ *)
(* opslaan of the forms, with what build_changes compares (SpecSave)   *)
(* ------------------------------------------------------------------ *)
\* rows of the database, over all tables
MaxSaveRows == 2

\* a text of the name column: s is the text without the blanks around it,
\* pad tells that the stored text has blanks around it
Name(s, pad) == [s |-> s, pad |-> pad]

\* str.strip()
strip(v) == [v EXCEPT !.pad = FALSE]

\* texts of the name field: in a row that was not written by a form, and
\* typed in the form
SaveNames == { Name(s, pad) : s \in {"Jansen", "Smit"}, pad \in BOOLEAN }

\* texts of the end-date field as typed
SaveDates == { EmptyText, YMD(2025, 1, 1) }

\* velden: the form fields, here the name and the end date
Fields == {"naam", "eind"}

\* data = {k: entries[k].get().strip() for _, k in velden}
FormData(naam, eind) == [naam |-> strip(naam), eind |-> eind]

\* _norm(old.get(key)) for each key of velden
NormOld(row) == [naam |-> strip(row.naam), eind |-> norm(row.eind)]

\* mutant of build_changes: the old values are compared as they are stored
build_changes_raw(old, new) ==
    { k \in Fields : [naam |-> old.naam, eind |-> norm(old.eind)][k] # new[k] }

\* build_changes(old, new, mapping): the fields with _norm(old) != _norm(new)
build_changes(old, new) == { k \in Fields : NormOld(old)[k] # new[k] }

\* INSERT INTO t (<form fields>) VALUES (:data)
InsertData(store, t, data) ==
    LET id == store[t].seq + 1
    IN  [store EXCEPT ![t] =
            [seq  |-> id,
             rows |-> [i \in DOMAIN store[t].rows \cup {id} |->
                          IF i = id
                          THEN [naam |-> data.naam, eind |-> data.eind,
                                melding |-> 0]
                          ELSE store[t].rows[i]]]]

\* UPDATE t SET <form fields> WHERE id=:id
UpdateData(store, t, id, data) ==
    [store EXCEPT ![t].rows[id] =
        [@ EXCEPT !.naam = data.naam, !.eind = data.eind]]

\* a database with one table that may hold a row no form has written (its
\* name may have blanks around it, its end date may be NULL)
InitSave ==
    /\ cfg = [OUTLOOK_OK |-> TRUE, SMTP_ENABLED |-> FALSE, SMTP_HOST |-> ""]
    /\ probe = NoProbe
    /\ now = 0
    /\ pc = "idle"
    /\ vandaag = Day0
    /\ \E t \in Tables, n \in 0..1 :
         \E rs \in [1..n -> [naam : SaveNames,
                             eind : SaveDates \cup {NullText},
                             melding : {0}]] :
            disk = [EmptyStore EXCEPT ![t] = [seq |-> n, rows |-> rs]]
    /\ txn = disk
    /\ tbl = 0
    /\ rows = << >>
    /\ call = NoCall
    /\ last = NoResult
    /\ delivered = {}
    /\ sameEnd = {}
    /\ attempted = {}
    /\ crashed = {}
    /\ scanSent = {}
    /\ maillog = NotWatched
    /\ inst = NoInst

\* opslaan without a record: INSERT, commit, then (formulier_u, formulier_g)
\* the mail about the new record
opslaan_new ==
    /\ pc = "idle"
    /\ \E t \in Tables, naam \in SaveNames, eind \in SaveDates :
         /\ Inserted(txn) < MaxSaveRows
         /\ txn' = InsertData(txn, t, FormData(naam, eind))
         /\ disk' = InsertData(txn, t, FormData(naam, eind))
         /\ IF t = "contracten"
            THEN UNCHANGED << pc, call >>
            ELSE /\ pc' = "mail"
                 /\ call' = [caller |-> "form", t |-> t, id |-> txn[t].seq + 1,
                             show_errors |-> TRUE]
    /\ UNCHANGED << env, now, scan, last, hist >>

\* opslaan with a record: UPDATE, commit, then (formulier_u, formulier_g) the
\* mail about the changes when build_changes returns any
opslaan_edit ==
    /\ pc = "idle"
    /\ \E t \in Tables, naam \in SaveNames, eind \in SaveDates :
       \E id \in DOMAIN txn[t].rows :
         LET data == FormData(naam, eind)
             changes == build_changes(txn[t].rows[id], data)
         IN  /\ txn' = UpdateData(txn, t, id, data)
             /\ disk' = UpdateData(txn, t, id, data)
             /\ IF t = "contracten" \/ changes = {}
                THEN UNCHANGED << pc, call >>
                ELSE /\ pc' = "mail"
                     /\ call' = [caller |-> "form", t |-> t, id |-> id,
                                 show_errors |-> TRUE]
    /\ UNCHANGED << env, now, scan, last, hist >>

NextSave == opslaan_new \/ opslaan_edit \/ stuur_mail \/ MailDone

SpecSave == InitSave /\ [][NextSave]_vars

\* a form saves in this step
Saves == pc = "idle" /\ txn' # txn

\* the step is an UPDATE of row id of table t
Edits(t, id) ==
    /\ pc = "idle"
    /\ txn'[t].seq = txn[t].seq
    /\ id \in DOMAIN txn[t].rows
    /\ \/ txn'[t].rows[id] # txn[t].rows[id]
       \/ (pc' = "mail" /\ call'.t = t /\ call'.id = id)

\* the row differs after the step from what it was, blanks and NULL aside
Differs(t, id) ==
    \/ txn'[t].rows[id].naam # strip(txn[t].rows[id].naam)
    \/ txn'[t].rows[id].eind # norm(txn[t].rows[id].eind)

\* the step is one of the stuur_mail call of a form, or what follows it
FormMailStep == pc \in {"mail", "mail_done"} /\ call.caller = "form"

\* C29: in the forms of uitzonderingen and gehandicapten a save is committed
\* before its mail is sent and the outcome of the mail never touches the save:
\* a failed mail leaves the inserted or updated record in place; an update
\* sends a mail only when a form field differs after trimming.
C29_SaveBeforeMail ==
    [][ /\ Saves => disk' = txn'
        /\ (pc' = "mail" /\ pc = "idle") =>
              /\ call'.t \in {"uitzonderingen", "gehandicapten"}
              /\ call'.id \in DOMAIN disk'[call'.t].rows
        /\ FormMailStep => (disk' = disk /\ txn' = txn)
        /\ \A t \in {"uitzonderingen", "gehandicapten"} :
             \A id \in DOMAIN txn[t].rows :
                Edits(t, id) => (pc' = "mail" <=> Differs(t, id)) ]_vars

\* C29 witness: the mail about a save has failed; the row holds the typed
\* values, committed
C29_Witness ==
    /\ pc = "mail_done"
    /\ call.caller = "form"
    /\ ~last.ok
    /\ call.id \in DOMAIN disk[call.t].rows
    /\ disk[call.t].seq = 1
    /\ disk[call.t].rows[call.id].naam = Name("Smit", FALSE)
    /\ txn = disk

(* ------------------------------------------------------------------ *)
(* stuur_mail under every setting of the SMTP constants (SpecCfg)      *)
(* ------------------------------------------------------------------ *)
\* SMTP_ENABLED and SMTP_HOST set independently of each other
AllConfigs ==
    [OUTLOOK_OK : BOOLEAN, SMTP_ENABLED : BOOLEAN, SMTP_HOST : {"", "smtp.host"}]

\* a database with one uitzondering that ends on Day0
InitCfg ==
    /\ cfg \in AllConfigs
    /\ probe = NoProbe
    /\ now = 0
    /\ pc = "down"
    /\ vandaag = Day0
    /\ disk = InsertRow(EmptyStore, "uitzonderingen", YMD(2025, 1, 1))
    /\ txn = disk
    /\ tbl = 0
    /\ rows = << >>
    /\ call = NoCall
    /\ last = NoResult
    /\ delivered = {}
    /\ sameEnd = {}
    /\ attempted = {}
    /\ crashed = {}
    /\ scanSent = {}
    /\ maillog = NotWatched
    /\ inst = NoInst

\* the scan at startup, then test mails from the window
NextCfg ==
    \/ Start
    \/ ScanRow
    \/ stuur_mail
    \/ ScanUpdate
    \/ ScanNext
    \/ TestMail
    \/ MailDone

SpecCfg == InitCfg /\ [][NextCfg]_vars

\* the SMTP fallback is switched on and has a host
FallbackSet == cfg.SMTP_ENABLED /\ cfg.SMTP_HOST # ""

\* the call has returned without Outlook having sent the message
OutlookDidNotSend == HasResult /\ At("sent", "outlook") = {}

====
